---- MODULE Spec2Model ----
(***************************************************************************)
(* Model of createFluentProxy (src/support/utils/fluent-proxy.ts): a       *)
(* handle that queues the method calls chained on it and runs them, one    *)
(* after the other, when execute() is called.                              *)
(*                                                                         *)
(* The JavaScript run-to-completion rule gives the grain of the actions:   *)
(* a chain call is one step, execute() runs up to its first await in one   *)
(* step, the settling of an operation's promise is a step of the wrapped   *)
(* target, and the continuation of execute() after its await is one step   *)
(* up to the next await or the return.                                     *)
(***************************************************************************)
EXTENDS Integers, Sequences, FiniteSets, TLC

\* ---------------------------------------------------------------- bounds
MaxChains == 2      \* chain calls made in one behaviour
MaxExecs  == 2      \* execute() calls made in one behaviour
MaxCalls  == 3      \* operations started on the target in one behaviour

\* ------------------------------------------------------------ the target
\* Values an operation may resolve with: the wrapped page object itself
\* ("return this"), another object exposing only part of the operations,
\* and undefined (an async method without a return statement).
Target   == "T"
Other    == "T2"
Undef    == "undef"
Values   == {Target, Other, Undef}

\* Names of the callable members of the wrapped target, and the argument
\* lists they are called with: step1 takes one argument, step2 none.
Methods  == {"step1", "step2"}
ArgsOf(prop) == IF prop = "step1" THEN {"a", "b"} ELSE {"-"}

\* Errors: the one an operation rejects with and the TypeError the engine
\* raises when a task applies something that is not a function.
Boom      == "boom"
TypeError == "TypeError"
NoError   == "none"

\* The chain documented for the "Manage Workout Day" page, and the
\* arguments its calls are given.
DocChain == <<"waitForScreen", "enterDayNumber", "enterDayName", "addSet",
              "saveWorkoutDay">>
DocArgs(prop) ==
    CASE prop = "enterDayNumber" -> {"1", "2"}
      [] prop = "enterDayName"   -> {"Monday", "Friday"}
      [] prop = "addSet"         -> {"4 sets of chest", "3 sets of back"}
      [] OTHER                   -> {"-"}

\* What a page method resolves with when it succeeds: the page ("return
\* this"), except addSet, which returns nothing.
PageResult(prop) == IF prop = "addSet" THEN Undef ELSE Target

\* The members of the wrapped target: its operations, among them one that
\* is itself named execute, and a data member; "missing" is no member.
DataMember == "title"
Callable == Methods \cup {"execute"} \cup {DocChain[k] : k \in 1..Len(DocChain)}
Props    == Methods \cup {"execute", DataMember, "missing"}

\* typeof v[prop] === 'function'
IsFunction(v, prop) ==
    \/ v = Target /\ prop \in Callable
    \/ v = Other  /\ prop = "step1"

\* The handles made by createFluentProxy for the one target; the callers of
\* this specification use the first.
Handles == {1, 2}
Primary == 1

VARIABLES
    queue,      \* queue[h]: the tasks pushed on handle h and not yet cleared
    drains,     \* drains[d]: the d-th call of execute()
    invoked,    \* the calls made on the target, in order, with their fate
    numChains,  \* chain calls made so far
    numExecs,   \* execute() calls made so far
    lastRet,    \* what the latest call on a handle returned to its caller
    chained,    \* history: the chain calls made, in order, as they were made
    field,      \* the value of the target's data member
    run         \* the run of one of the suite's other programs (hooks,
                \* utilities, page methods): its position, locals and trace

proxyVars == <<queue, drains, invoked, numChains, numExecs, lastRet, chained, field>>
vars == <<queue, drains, invoked, numChains, numExecs, lastRet, chained, field, run>>

Drains == 1..MaxExecs

NoTask == [id |-> 0, prop |-> "", args |-> ""]

\* A call of execute(): h, idx, result and task are the closure's handle,
\* iterator position and locals; op is the call on the target its await
\* waits for and thrown the error of a task that threw before calling; st
\* and val are the state and value of the promise execute() returned.
\* History only: live (the drains of h in progress when it was called),
\* start (the number of chain calls made before it was called) and
\* cleared (the ids of the tasks its queue.length = 0 removed).
NoDrain == [h |-> 0, st |-> "idle", idx |-> 0, result |-> Undef,
            task |-> NoTask, op |-> 0, thrown |-> NoError, val |-> Undef,
            live |-> {}, start |-> 0, cleared |-> <<>>]

\* No other program is running.
NoRun == [prog |-> "none"]

ProxyInit ==
    /\ queue = [h \in Handles |-> <<>>]
    /\ drains = [d \in Drains |-> NoDrain]
    /\ invoked = <<>>
    /\ numChains = 0
    /\ numExecs = 0
    /\ lastRet = [kind |-> "none", ref |-> 0]
    /\ chained = <<>>
    /\ field = 0

Init == ProxyInit /\ run = NoRun

Ids(q) == [k \in 1..Len(q) |-> q[k].id]

\* The drains of handle h that are waiting in their await.
Live(h) == {d \in Drains : drains[d].st = "awaiting" /\ drains[d].h = h}

\* const queue = [] inside createFluentProxy: the queue a handle's closures
\* refer to is the one made by the call that made the handle.
QueueShared(h) == Primary
QueueOf(h) == h

\* -------------------------------------------------------------- get trap
\* Variants of the get trap: one that queues every name but execute, one
\* that looks at the target's member before the name execute.
ProxyGetQueueAll(prop) ==
    IF prop = "execute" THEN "execute" ELSE "queuer"
ProxyGetTargetFirst(prop) ==
    IF IsFunction(Target, prop) THEN "queuer"
    ELSE IF prop = "execute" THEN "execute"
    ELSE "value"

\* What reading prop on the handle yields.
ProxyGet(prop) ==
    IF prop = "execute" THEN "execute"
    ELSE IF IsFunction(Target, prop) THEN "queuer"
    ELSE "value"

\* The task closure pushed by a chain call: it keeps the property name and
\* the arguments; id tells the closures of different chain calls apart.
MkTaskNoArgs(id, prop, args) == [id |-> id, prop |-> prop, args |-> "-"]
MkTask(id, prop, args) == [id |-> id, prop |-> prop, args |-> args]

\* queue.push(task)
PushFront(q, task) == <<task>> \o q
Push(q, task) == Append(q, task)

\* return proxy
ChainReturnPromise(h) == [kind |-> "promise", ref |-> 0]
ChainReturn(h) == [kind |-> "handle", ref |-> h]

\* handle.prop(args) for a callable member: push the task, return the proxy.
Chain(h, prop, args) ==
    /\ numChains < MaxChains
    /\ ProxyGet(prop) = "queuer"
    /\ numChains' = numChains + 1
    /\ queue' = [queue EXCEPT ![QueueOf(h)] =
                    Push(@, MkTask(numChains + 1, prop, args))]
    /\ lastRet' = ChainReturn(h)
    /\ chained' = Append(chained, [h |-> h, prop |-> prop, args |-> args])
    /\ UNCHANGED <<drains, invoked, numExecs, field, run>>

\* ---------------------------------------------------------------- execute
\* let result = target
FirstResultUndef == Undef
FirstResult == Target

\* for (const task of queue): the iterator compares its index with the
\* length the array has when it is asked.
HasNextButLast(idx, q) == idx + 1 < Len(q)
HasNext(idx, q) == idx < Len(q)

\* result = await task(result)
CarriedFirst(prev, v) == prev
Carried(prev, v) == v

\* queue.length = 0
ClearedNot(q) == q
Cleared(q) == <<>>

\* return result
ReturnedTarget(res) == Target
Returned(res) == res

\* a rejection awaited in execute() leaves it as it came
PropagatedWrapped(e) == "wrapped"
Propagated(e) == e

\* The handle, as a value an operation could be applied to.
Proxy == "proxy"

\* method.apply(currentPage, args): the operation's this is the value the
\* loop carries, which is the raw target at first.
ReceiverProxy(currentPage) == Proxy
Receiver(currentPage) == currentPage

\* Operations that call another operation on their this before their first
\* await, as tapCreate calls this.hideKeyboard().
CallsOnThis(prop) == prop = "step2"

\* The queue after an operation applied to this has started: a call it
\* makes on the handle goes through the get trap and is queued, a call on
\* the raw target runs inside the operation.
AfterCallOnThis(q, prop, this) ==
    IF CallsOnThis(prop) /\ this = Proxy
    THEN Push(q, MkTask(0, "step1", "a"))
    ELSE q

\* The loop of execute() from the point where it asks the iterator for the
\* next task, with carried value res, up to the next await or the return.
LoopStep(d, dr, res) ==
    IF HasNext(dr.idx, queue[QueueOf(dr.h)])
    THEN LET task == queue[QueueOf(dr.h)][dr.idx + 1]
             base == [dr EXCEPT !.st = "awaiting", !.idx = dr.idx + 1,
                                !.result = res, !.task = task]
         IN  IF IsFunction(res, task.prop)
             THEN \* method.apply(currentPage, args)
                  /\ invoked' = Append(invoked,
                        [task |-> task.id, prop |-> task.prop, args |-> task.args,
                         this |-> Receiver(res), drain |-> d, h |-> dr.h,
                         st |-> "pending", val |-> Undef])
                  /\ drains' = [drains EXCEPT ![d] =
                        [base EXCEPT !.op = Len(invoked) + 1, !.thrown = NoError]]
                  /\ queue' = [queue EXCEPT ![QueueOf(dr.h)] =
                        AfterCallOnThis(@, task.prop, Receiver(res))]
             ELSE \* the task throws before any call is made
                  /\ drains' = [drains EXCEPT ![d] =
                        [base EXCEPT !.op = 0, !.thrown = TypeError]]
                  /\ UNCHANGED <<invoked, queue>>
    ELSE \* queue.length = 0; return result
         /\ queue' = [queue EXCEPT ![QueueOf(dr.h)] = Cleared(@)]
         /\ drains' = [drains EXCEPT ![d] =
               [dr EXCEPT !.st = "resolved", !.result = res,
                          !.val = Returned(res), !.op = 0, !.thrown = NoError,
                          !.task = NoTask,
                          !.cleared = Ids(queue[QueueOf(dr.h)])]]
         /\ UNCHANGED invoked

\* The loop's next step starts an operation on the target.
Starts(h, idx, res) ==
    /\ HasNext(idx, queue[QueueOf(h)])
    /\ IsFunction(res, queue[QueueOf(h)][idx + 1].prop)

\* handle.execute(): runs synchronously up to the first await.
\* mark is kept as the drain's start, for the history only.
CallExecuteFrom(h, mark) ==
    /\ numExecs < MaxExecs
    /\ ProxyGet("execute") = "execute"
    /\ Starts(h, 0, FirstResult) => Len(invoked) < MaxCalls
    /\ numExecs' = numExecs + 1
    /\ LoopStep(numExecs + 1,
                [NoDrain EXCEPT !.h = h, !.live = Live(h), !.start = mark],
                FirstResult)
    /\ lastRet' = [kind |-> "promise", ref |-> numExecs + 1]
    /\ UNCHANGED <<numChains, chained, field, run>>

CallExecute(h) == CallExecuteFrom(h, 0)

\* The promise of the operation started as invoked[i] settles.
OpResolve(i, v) ==
    /\ i \in 1..Len(invoked)
    /\ invoked[i].st = "pending"
    /\ invoked' = [invoked EXCEPT ![i] = [@ EXCEPT !.st = "resolved", !.val = v]]
    /\ UNCHANGED <<queue, drains, numChains, numExecs, lastRet, chained, field, run>>

OpReject(i) ==
    /\ i \in 1..Len(invoked)
    /\ invoked[i].st = "pending"
    /\ invoked' = [invoked EXCEPT ![i] = [@ EXCEPT !.st = "rejected", !.val = Boom]]
    /\ UNCHANGED <<queue, drains, numChains, numExecs, lastRet, chained, field, run>>

\* The task awaited by drain d: "none" while it is pending, else how it
\* settled, and with what.
Awaited(d) ==
    IF drains[d].op = 0
    THEN IF drains[d].thrown = NoError THEN "none" ELSE "rejected"
    ELSE IF invoked[drains[d].op].st = "pending" THEN "none"
         ELSE invoked[drains[d].op].st

AwaitedVal(d) ==
    IF drains[d].op = 0 THEN drains[d].thrown ELSE invoked[drains[d].op].val

\* Continuation of execute() after "await task(result)".
DrainResume(d) ==
    /\ drains[d].st = "awaiting"
    /\ Awaited(d) # "none"
    /\ (Awaited(d) = "resolved"
          /\ Starts(drains[d].h, drains[d].idx, Carried(drains[d].result, AwaitedVal(d))))
       => Len(invoked) < MaxCalls
    /\ IF Awaited(d) = "rejected"
       THEN \* the await throws; nothing after it in execute() runs
            /\ drains' = [drains EXCEPT ![d] =
                  [@ EXCEPT !.st = "rejected", !.val = Propagated(AwaitedVal(d))]]
            /\ UNCHANGED <<queue, invoked>>
       ELSE LoopStep(d, drains[d], Carried(drains[d].result, AwaitedVal(d)))
    /\ UNCHANGED <<numChains, numExecs, lastRet, chained, field, run>>

\* ------------------------------------------------- other reads of the handle
\* handle.prop(...) where the get trap returned target[prop], which is no
\* function: the call expression throws at the call site.
CallValue(h, prop) ==
    /\ ProxyGet(prop) = "value"
    /\ lastRet' = [kind |-> "thrown", ref |-> 0]
    /\ UNCHANGED <<queue, drains, invoked, numChains, numExecs, chained, field, run>>

\* return target[prop]: the target's member as it is when it is read.
FieldReadStale(cur) == 0
FieldRead(cur) == cur

\* handle.title
ReadField(h) ==
    /\ ProxyGet(DataMember) = "value"
    /\ lastRet' = [kind |-> "value", ref |-> FieldRead(field)]
    /\ UNCHANGED <<queue, drains, invoked, numChains, numExecs, chained, field, run>>

\* The owner of the target changes its data member.
SetField(v) ==
    /\ field # v
    /\ field' = v
    /\ UNCHANGED <<queue, drains, invoked, numChains, numExecs, lastRet, chained, run>>

\* ---------------------------------------- the documented workout-day chain
\* The next call of the documented chain, made on the handle.
DocChainCall(h, args) ==
    /\ numChains < Len(DocChain)
    /\ numExecs = 0
    /\ ProxyGet(DocChain[numChains + 1]) = "queuer"
    /\ numChains' = numChains + 1
    /\ queue' = [queue EXCEPT ![QueueOf(h)] =
                    Push(@, MkTask(numChains + 1, DocChain[numChains + 1], args))]
    /\ lastRet' = ChainReturn(h)
    /\ chained' = Append(chained, [h |-> h, prop |-> DocChain[numChains + 1],
                                   args |-> args])
    /\ UNCHANGED <<drains, invoked, numExecs, field, run>>

\* .execute() at the end of the documented chain.
DocExecute(h) ==
    /\ numChains = Len(DocChain)
    /\ numExecs = 0
    /\ ProxyGet("execute") = "execute"
    /\ numExecs' = 1
    /\ LoopStep(1, [NoDrain EXCEPT !.h = h, !.live = Live(h)], FirstResult)
    /\ lastRet' = [kind |-> "promise", ref |-> 1]
    /\ UNCHANGED <<numChains, chained, field, run>>

\* A page method called by the drain succeeds, resolving with what its
\* code returns.
DocSucceed(i) ==
    /\ i \in 1..Len(invoked)
    /\ invoked[i].st = "pending"
    /\ invoked' = [invoked EXCEPT ![i] =
                      [@ EXCEPT !.st = "resolved", !.val = PageResult(invoked[i].prop)]]
    /\ UNCHANGED <<queue, drains, numChains, numExecs, lastRet, chained, field, run>>

\* Continuation of execute() after its await.
DocResume(d) ==
    /\ drains[d].st = "awaiting"
    /\ Awaited(d) # "none"
    /\ IF Awaited(d) = "rejected"
       THEN /\ drains' = [drains EXCEPT ![d] =
                  [@ EXCEPT !.st = "rejected", !.val = Propagated(AwaitedVal(d))]]
            /\ UNCHANGED <<queue, invoked>>
       ELSE LoopStep(d, drains[d], Carried(drains[d].result, AwaitedVal(d)))
    /\ UNCHANGED <<numChains, numExecs, lastRet, chained, field, run>>

Next ==
    \/ \E p \in Methods : \E a \in ArgsOf(p) : Chain(Primary, p, a)
    \/ CallExecute(Primary)
    \/ \E i \in 1..MaxCalls, v \in Values : OpResolve(i, v)
    \/ \E i \in 1..MaxCalls : OpReject(i)
    \/ \E d \in Drains : DrainResume(d)

Spec == Init /\ [][Next]_vars

\* Every name read and called on the handle, and the data member written.
NextProps ==
    \/ \E p \in Props : \E a \in ArgsOf(p) : Chain(Primary, p, a)
    \/ CallExecute(Primary)
    \/ \E i \in 1..MaxCalls : OpResolve(i, Target)
    \/ \E i \in 1..MaxCalls : OpReject(i)
    \/ \E d \in Drains : DrainResume(d)
    \/ \E p \in Props : CallValue(Primary, p)
    \/ ReadField(Primary)
    \/ \E v \in {0, 1} : SetField(v)

SpecProps == Init /\ [][NextProps]_vars

\* Two handles made for the same target.
NextTwo ==
    \/ \E h \in Handles : \E p \in Methods : \E a \in ArgsOf(p) : Chain(h, p, a)
    \/ \E h \in Handles : CallExecute(h)
    \/ \E i \in 1..MaxCalls : OpResolve(i, Target)
    \/ \E i \in 1..MaxCalls : OpReject(i)
    \/ \E d \in Drains : DrainResume(d)

SpecTwo == Init /\ [][NextTwo]_vars

\* The documented chain of the workout-day page, then execute().
NextDoc ==
    \/ \E a \in DocArgs(DocChain[IF numChains < Len(DocChain) THEN numChains + 1 ELSE 1]) :
          DocChainCall(Primary, a)
    \/ DocExecute(Primary)
    \/ \E i \in 1..Len(DocChain) : DocSucceed(i)
    \/ \E i \in 1..Len(DocChain) : OpReject(i)
    \/ \E d \in Drains : DocResume(d)

SpecDoc == Init /\ [][NextDoc]_vars

\* One handle, with the number of chain calls made so far noted at each
\* execute() call.
NextDuring ==
    \/ \E p \in Methods : \E a \in ArgsOf(p) : Chain(Primary, p, a)
    \/ CallExecuteFrom(Primary, numChains)
    \/ \E i \in 1..MaxCalls : OpResolve(i, Target)
    \/ \E i \in 1..MaxCalls : OpReject(i)
    \/ \E d \in Drains : DrainResume(d)

SpecDuring == Init /\ [][NextDuring]_vars

\* The scheduling of the event loop: a continuation whose awaited promise
\* has settled is run; and the operations started do settle.
Fairness ==
    /\ \A d \in Drains : WF_vars(DrainResume(d))
    /\ \A i \in 1..MaxCalls : WF_vars(OpResolve(i, Target) \/ OpReject(i))

SpecLive == Init /\ [][Next]_vars /\ Fairness

TypeOK ==
    /\ numChains \in 0..MaxChains
    /\ numExecs \in 0..MaxExecs
    /\ Len(invoked) <= MaxCalls
    /\ \A h \in Handles : Len(queue[h]) <= MaxChains

\* ------------------------------------------------------------ vocabulary
Called(d)  == drains[d].st # "idle"
Settled(d) == drains[d].st \in {"resolved", "rejected"}

\* The calls drain d made on the target, as positions of invoked.
CallsOf(d) == {i \in 1..Len(invoked) : invoked[i].drain = d}

\* Two calls of the same drain with none of its calls between them.
Consecutive(d, i, j) ==
    /\ i \in CallsOf(d) /\ j \in CallsOf(d) /\ i < j
    /\ \A k \in CallsOf(d) : ~(i < k /\ k < j)

\* The ids of the tasks drain d called, in the order of the calls.
CalledBy(r, d) == r.drain = d
TasksOf(d) ==
    LET sel == SelectSeq(invoked, LAMBDA r : CalledBy(r, d))
    IN  [k \in 1..Len(sel) |-> sel[k].task]

\* d2 was called after d1 had settled, on the same handle.
After(d1, d2) ==
    /\ d1 < d2 /\ Called(d2) /\ Settled(d1)
    /\ drains[d1].h = drains[d2].h
    /\ d1 \notin drains[d2].live

\* No other execute() of the handle was in progress while d was.
Solo(d) ==
    /\ drains[d].live = {}
    /\ \A e \in Drains : Called(e) => d \notin drains[e].live

Increasing(s) == \A k \in 1..Len(s) - 1 : s[k] < s[k + 1]

\* ------------------------------------------------------------------- C1
\* C1: the calls of one execute() follow the order of the chain calls and
\* each but the last has resolved before the next is made; an execute()
\* that ran alone and whose operations all resolved with the target has
\* called every task of the queue, each once, in queue order.
C1_InOrderOneAtATime ==
    \A d \in Drains :
        LET cs == CallsOf(d) IN
        /\ \A i, j \in cs :
              i < j => /\ invoked[i].st = "resolved"
                       /\ invoked[i].task < invoked[j].task
        /\ ( /\ drains[d].st = "resolved"
             /\ Solo(d)
             /\ \A i \in cs : invoked[i].val = Target )
           => /\ TasksOf(d) = drains[d].cleared
              /\ Increasing(drains[d].cleared)

C1_Witness ==
    \E d \in Drains :
        /\ drains[d].st = "resolved" /\ Solo(d)
        /\ Cardinality(CallsOf(d)) >= 2
        /\ \A i \in CallsOf(d) : invoked[i].val = Target

\* ------------------------------------------------------------------- C2
\* C2: once a call of an execute() has rejected, or its task has thrown,
\* that execute() makes no further call, and when it settles it rejects
\* with that very error.
C2_RejectionStopsAndPropagates ==
    \A d \in Drains :
        LET cs == CallsOf(d) IN
        /\ \A i \in cs :
              invoked[i].st = "rejected" =>
                 /\ \A j \in cs : j <= i
                 /\ drains[d].st \in {"awaiting", "rejected"}
                 /\ drains[d].st = "rejected" => drains[d].val = invoked[i].val
        /\ drains[d].thrown # NoError =>
              /\ drains[d].st \in {"awaiting", "rejected"}
              /\ drains[d].st = "rejected" => drains[d].val = drains[d].thrown
        /\ drains[d].st = "rejected" =>
              \/ drains[d].thrown # NoError
              \/ \E i \in cs : invoked[i].st = "rejected"

\* An execute() rejected with the operation's error while a later task
\* was still queued behind the one that failed.
C2_Witness ==
    \E d \in Drains :
        /\ drains[d].st = "rejected" /\ drains[d].val = Boom
        /\ drains[d].idx < Len(queue[drains[d].h])
        /\ \E i \in CallsOf(d) : invoked[i].st = "rejected"

\* ------------------------------------------------------------------- C3
\* C3: in the step in which an execute() settles, resolved or rejected,
\* the queue of its handle is left empty.
C3_QueueEmptyWhenSettled ==
    [][\A d \in Drains :
          (~Settled(d) /\ Settled(d)') => queue'[drains'[d].h] = <<>>]_vars

\* ------------------------------------------------------------------- C4
\* C4: an operation called by an execute() that rejected is not called
\* again by an execute() made on the handle after that rejection.
C4_FailedDrainNotRerun ==
    \A d1, d2 \in Drains :
        (drains[d1].st = "rejected" /\ After(d1, d2)) =>
            \A i \in CallsOf(d1), j \in CallsOf(d2) :
                invoked[i].task # invoked[j].task

\* ------------------------------------------------------------------- C5
\* C5: an execute() made after another one resolved calls none of the
\* tasks the first called or cleared; when the handle is used by one
\* execute() at a time, a resolved execute() has called, in order and
\* starting on the wrapped target, exactly the tasks chained since the
\* previous clearing, and no task is lost between the queue and the
\* clearings.
Sequential == \A d \in Drains : Called(d) => Solo(d)

RECURSIVE ClearedUpTo(_)
ClearedUpTo(d) ==
    IF d = 0 THEN <<>> ELSE ClearedUpTo(d - 1) \o drains[d].cleared

C5_ReuseAfterResolve ==
    /\ \A d1, d2 \in Drains :
          (drains[d1].st = "resolved" /\ After(d1, d2)) =>
             /\ \A i \in CallsOf(d1), j \in CallsOf(d2) :
                   invoked[i].task < invoked[j].task
             /\ \A k \in 1..Len(drains[d1].cleared), j \in CallsOf(d2) :
                   drains[d1].cleared[k] < invoked[j].task
    /\ Sequential =>
          /\ \A d \in Drains : drains[d].st = "resolved" =>
                /\ TasksOf(d) = drains[d].cleared
                /\ \A i \in CallsOf(d) :
                      (\A j \in CallsOf(d) : i <= j) => invoked[i].this = Target
          /\ ClearedUpTo(MaxExecs) \o Ids(queue[Primary])
                = [k \in 1..numChains |-> k]

C5_Witness ==
    \E d1, d2 \in Drains :
        /\ drains[d1].st = "resolved" /\ drains[d2].st = "resolved"
        /\ After(d1, d2) /\ Sequential
        /\ CallsOf(d1) # {} /\ CallsOf(d2) # {}

\* ------------------------------------------------------------------- C6
\* C6: of the operations started through one handle, at most one has not
\* settled.
C6_OneInFlightPerHandle ==
    \A h \in Handles :
        Cardinality({i \in 1..Len(invoked) :
                        invoked[i].h = h /\ invoked[i].st = "pending"}) <= 1

\* ------------------------------------------------------------------- C7
\* C7: a chain call returns the handle itself, adds exactly one task, at
\* the tail of that handle's queue, and starts nothing: no call is made on
\* the target and no execute() moves; calls on the target are made by
\* execute() only.
C7_ChainStep ==
    numChains' # numChains =>
        /\ invoked' = invoked
        /\ drains' = drains
        /\ \E h \in Handles :
              /\ lastRet' = [kind |-> "handle", ref |-> h]
              /\ Len(queue'[h]) = Len(queue[h]) + 1
              /\ SubSeq(queue'[h], 1, Len(queue[h])) = queue[h]
              /\ queue'[h][Len(queue'[h])].id = numChains'
              /\ \A g \in Handles \ {h} : queue'[g] = queue[g]

C7_ChainDeferred ==
    /\ [][C7_ChainStep]_vars
    /\ [](\A i \in 1..Len(invoked) : Called(invoked[i].drain))

C7_Witness ==
    /\ lastRet.kind = "handle"
    /\ Len(queue[lastRet.ref]) >= 2
    /\ invoked = <<>>

\* ------------------------------------------------------------------- C8
\* C8: the first call of an execute() is made on the wrapped target; each
\* later one is made on the value the previous call resolved with, where
\* the operation is looked up: a task whose name is no function of that
\* value throws and makes no call.
C8_CarriedForward ==
    \A d \in Drains :
        LET cs == CallsOf(d) IN
        /\ \A i \in cs :
              /\ (\A j \in cs : i <= j) => invoked[i].this = Target
              /\ IsFunction(invoked[i].this, invoked[i].prop)
        /\ \A i, j \in cs :
              (i < j /\ \A k \in cs : ~(i < k /\ k < j)) =>
                 /\ invoked[i].st = "resolved"
                 /\ invoked[j].this = invoked[i].val
        /\ drains[d].thrown = TypeError =>
              /\ ~IsFunction(drains[d].result, drains[d].task.prop)
              /\ \A i \in cs :
                    (\A j \in cs : j <= i) =>
                        drains[d].result = invoked[i].val

\* A call made on a value other than the wrapped target.
C8_Witness ==
    \E d \in Drains : \E i, j \in CallsOf(d) :
        /\ Consecutive(d, i, j)
        /\ invoked[i].val = Other /\ invoked[j].this = Other

\* ------------------------------------------------------------------- C9
\* C9: an execute() that made calls and resolved has the value of its last
\* call, which has resolved; and the step in which an execute() resolves
\* leaves the queue of its handle empty.
C9_ResolveStep ==
    \A d \in Drains :
        (drains[d].st # "resolved" /\ drains'[d].st = "resolved") =>
            queue'[drains'[d].h] = <<>>

C9_ResolvesWithLast ==
    /\ [](\A d \in Drains :
            (drains[d].st = "resolved" /\ CallsOf(d) # {}) =>
                \A i \in CallsOf(d) :
                    (\A j \in CallsOf(d) : j <= i) =>
                        /\ invoked[i].st = "resolved"
                        /\ drains[d].val = invoked[i].val)
    /\ [][C9_ResolveStep]_vars

C9_Witness ==
    \E d \in Drains :
        /\ drains[d].st = "resolved" /\ drains[d].val = Other
        /\ Cardinality(CallsOf(d)) >= 2

\* ------------------------------------------------------------------ C10
\* C10: an execute() that found the queue empty when it was called has
\* resolved, with the wrapped target, and has called nothing.
C10_EmptyExecute ==
    \A d \in Drains :
        (Called(d) /\ drains[d].idx = 0) =>
            /\ drains[d].st = "resolved"
            /\ drains[d].val = Target
            /\ CallsOf(d) = {}

\* execute() on the handle right after its construction.
C10_Witness ==
    /\ numChains = 0 /\ invoked = <<>>
    /\ drains[1].st = "resolved" /\ drains[1].idx = 0

NonCallableThrew == lastRet' # lastRet /\ lastRet'.kind = "thrown"

C12_Step ==
    /\ NonCallableThrew => UNCHANGED <<queue, drains, invoked, chained>>
    /\ \A h \in Handles : \A k \in 1..Len(queue'[h]) :
          queue'[h][k].prop \in Callable
    /\ \A i \in 1..Len(invoked') :
          invoked'[i].prop \in Callable

C12_NonCallableNotQueued == [][C12_Step]_vars

C12_Witness ==
    /\ lastRet.kind = "thrown"
    /\ Len(queue[Primary]) >= 1
    /\ \E d \in Drains : drains[d].st = "resolved" /\ Len(drains[d].cleared) >= 1

\* ------------------------------------------------------------------ C13
\* C13: reading a data member through the handle yields the value the
\* target holds at the time of the read, so a change made between two reads
\* shows in the second, and the read leaves the queue as it was.
MemberWasRead == lastRet' # lastRet /\ lastRet'.kind = "value"

C13_Step ==
    MemberWasRead => /\ lastRet'.ref = field
                     /\ UNCHANGED <<queue, drains, invoked, chained, field>>

C13_ReadIsCurrent == [][C13_Step]_vars

C13_Witness ==
    /\ lastRet = [kind |-> "value", ref |-> 1]
    /\ field = 1
    /\ Len(queue[Primary]) >= 1

\* ------------------------------------------------------------------ C14
\* C14: two handles made for the same target have queues of their own: an
\* execute() on one handle invokes and clears only operations chained on
\* that handle, and a step of one handle (a chain call, or any step of its
\* execute()) leaves the queue of the other handle as it was.
ChainedOn(id) == chained[id].h

OwnTasksOnly ==
    /\ \A i \in 1..Len(invoked) : ChainedOn(invoked[i].task) = invoked[i].h
    /\ \A d \in Drains : \A k \in 1..Len(drains[d].cleared) :
          ChainedOn(drains[d].cleared[k]) = drains[d].h
    /\ \A h \in Handles : \A k \in 1..Len(queue[h]) :
          ChainedOn(queue[h][k].id) = h

StepOfHandle(h) ==
    \/ Len(chained') > Len(chained) /\ chained'[Len(chained')].h = h
    \/ \E d \in Drains : drains'[d] # drains[d] /\ drains'[d].h = h

C14_Step ==
    /\ OwnTasksOnly'
    /\ \A g \in Handles : queue'[g] # queue[g] => StepOfHandle(g)

C14_SeparateQueues == [][C14_Step]_vars

C14_Witness ==
    \E d \in Drains :
        /\ drains[d].st = "resolved" /\ drains[d].h = 1
        /\ Len(drains[d].cleared) >= 1
        /\ Len(queue[2]) >= 1

\* ------------------------------------------------------------------ C15
\* C15: the name execute is reserved. The target has a member of its own
\* named execute, yet calling execute on the handle starts a drain and
\* returns its promise without queueing anything, and no task and no
\* invocation ever carries the name execute; a call of any other callable
\* name appends one task with that name to the queue.
ExecuteCalled == numExecs' = numExecs + 1
ChainCalled   == Len(chained') = Len(chained) + 1

C15_Step ==
    /\ IsFunction(Target, "execute")
    /\ ExecuteCalled =>
          /\ lastRet'.kind = "promise"
          /\ chained' = chained
          /\ \A h \in Handles : Len(queue'[h]) <= Len(queue[h])
    /\ \A h \in Handles : \A k \in 1..Len(queue'[h]) : queue'[h][k].prop # "execute"
    /\ \A i \in 1..Len(invoked') : invoked'[i].prop # "execute"
    /\ ChainCalled =>
          LET c == chained'[Len(chained')]
          IN  /\ c.prop \in Callable \ {"execute"}
              /\ Len(queue'[c.h]) = Len(queue[c.h]) + 1
              /\ queue'[c.h][Len(queue'[c.h])].prop = c.prop

C15_ExecuteReserved == [][C15_Step]_vars

C15_Witness ==
    /\ lastRet.kind = "promise"
    /\ \E d \in Drains : drains[d].st = "resolved" /\ Len(drains[d].cleared) >= 1
    /\ \A i \in 1..Len(invoked) : invoked[i].prop \in Methods

\* ------------------------------------------------------------------ C16
\* C16: every invocation is made with the operation name and the arguments
\* of its own chain call, and one execute() invokes the operations in the
\* order of their chain calls, none of them twice: the same operation
\* chained twice with different arguments is invoked twice, each time with
\* the arguments of the corresponding call.
OwnNameAndArgs(i) ==
    /\ invoked[i].task \in 1..Len(chained)
    /\ invoked[i].prop = chained[invoked[i].task].prop
    /\ invoked[i].args = chained[invoked[i].task].args

C16_OwnArguments ==
    /\ \A i \in 1..Len(invoked) : OwnNameAndArgs(i)
    /\ \A d \in Drains : Increasing(TasksOf(d))

C16_Witness ==
    \E d \in Drains : \E i, j \in CallsOf(d) :
        /\ drains[d].st = "resolved"
        /\ i < j
        /\ invoked[i].prop = "step1" /\ invoked[j].prop = "step1"
        /\ invoked[i].args = "a" /\ invoked[j].args = "b"
        /\ chained = <<[h |-> Primary, prop |-> "step1", args |-> "a"],
                       [h |-> Primary, prop |-> "step1", args |-> "b"]>>

\* ------------------------------------------------------------------ C17
\* C17: the chain documented for the workout-day page runs to its end:
\* once execute() has settled with none of the page methods it called
\* having failed, it has resolved and saveWorkoutDay has been invoked.
AllSucceeded == \A i \in 1..Len(invoked) : invoked[i].st = "resolved"

C17_DocChainCompletes ==
    ( /\ Settled(1)
      /\ Len(chained) = Len(DocChain)
      /\ AllSucceeded )
    => /\ drains[1].st = "resolved"
       /\ \E i \in 1..Len(invoked) : invoked[i].prop = "saveWorkoutDay"

\* ------------------------------------------------------------------ C18
\* C18: when the operations settle, a started execute() settles (here: or
\* the bound on the number of calls is reached), and the handle goes
\* Queuing -> Draining -> Idle: a handle leaving Draining is Idle, its
\* queue empty, whether the drain resolved or rejected, and execute()
\* called on an Idle handle leaves it Idle.
Phase(h) ==
    IF Live(h) # {} THEN "Draining"
    ELSE IF queue[QueueOf(h)] # <<>> THEN "Queuing"
    ELSE "Idle"

C18_PhaseStep ==
    \A h \in Handles :
        /\ (Phase(h) = "Draining" /\ Phase(h)' # "Draining") => Phase(h)' = "Idle"
        /\ (Phase(h) = "Idle" /\ ExecuteCalled) => Phase(h)' = "Idle"

C18_Settles ==
    \A d \in Drains : Called(d) ~> (Settled(d) \/ Len(invoked) = MaxCalls)

C18_DrainEndsIdle == C18_Settles /\ [][C18_PhaseStep]_vars

\* ------------------------------------------------------------------ C19
\* C19: over the whole life of a handle, whatever the interleaving of chain
\* calls and execute() calls, no chain call is invoked on the target more
\* than once.
InvocationsOf(id) == {i \in 1..Len(invoked) : invoked[i].task = id}

C19_AtMostOnce ==
    \A id \in 1..Len(chained) : Cardinality(InvocationsOf(id)) <= 1

\* ------------------------------------------------------------------ C20
\* The chain calls made on d's handle after execute() d was called; while
\* d is in progress these are the calls made during the drain.
Since(d) ==
    {id \in (drains[d].start + 1)..Len(chained) : ChainedOn(id) = drains[d].h}

Range(s) == {s[k] : k \in 1..Len(s)}

\* d, in progress, settles in this step.
Ends(d) == drains[d].st = "awaiting" /\ Settled(d)'

\* C20: an operation chained while an execute() is in progress is invoked
\* by that execute() before it resolves, and when the execute() ends,
\* resolved or rejected, the operation is not left in the queue.
C20_EndStep ==
    \A d \in Drains :
        Ends(d) =>
            /\ drains'[d].st = "resolved" => Since(d) \subseteq Range(TasksOf(d)')
            /\ Since(d) \cap Range(Ids(queue'[QueueOf(drains[d].h)])) = {}

C20_ChainedDuringDrain == [][C20_EndStep]_vars

\* ------------------------------------------------------------------ C21
\* C21: clearing the queue discards no operation that was never invoked:
\* as long as no operation has rejected and no execute() has rejected,
\* every task removed from the queue by an execute() has been invoked at
\* least once.
NothingRejected ==
    /\ \A i \in 1..Len(invoked) : invoked[i].st # "rejected"
    /\ \A d \in Drains : drains[d].st # "rejected"

C21_ClearedWereInvoked ==
    NothingRejected =>
        \A d \in Drains : \A k \in 1..Len(drains[d].cleared) :
            InvocationsOf(drains[d].cleared[k]) # {}

\* ------------------------------------------------------------------ C22
\* C22: an operation started by a drain is applied to the value the drain
\* carries (the raw target, or the result carried forward), never to the
\* handle, and the step that starts it, calls the operation makes on its
\* this included, leaves the queue as it was.
OperationStarted == Len(invoked') = Len(invoked) + 1

C22_Step ==
    OperationStarted =>
        LET r == invoked'[Len(invoked')]
        IN  /\ r.this # Proxy
            /\ r.this = drains'[r.drain].result
            /\ r.this \in {Target, Other}
            /\ queue' = queue

C22_AppliedToRawTarget == [][C22_Step]_vars

C22_Witness ==
    \E i, j \in 1..Len(invoked) :
        /\ invoked[i].prop = "step2" /\ CallsOnThis(invoked[i].prop)
        /\ invoked[i].this = Target
        /\ invoked[j].this = Other
        /\ Len(queue[Primary]) = 2

\* ======================================================================
\* The 'Weekly Report' suite whose cleanup is in the after hook
\* (src/tests/weekly-report.spec.ts:9-37): beforeEach, the tests, after.
\* ======================================================================
MaxTests == 3       \* tests of the suite run in one behaviour

\* The ids the service may give the first routine created.
FirstIds == {1, 11, 21}

WeeklyInit ==
    /\ ProxyInit
    /\ \E first \in FirstIds :
          run = [prog |-> "weekly", pc |-> "beforeEach", ran |-> 0,
                 nextId |-> first, trackRoutines |-> <<>>,
                 created |-> <<>>, deleted |-> <<>>, i |-> 0,
                 out |-> "pending"]

\* beforeEach: trackRoutines = []; then the session is reloaded and the app
\* terminated. When the hook fails, the remaining tests are not run.
WeeklyBeforeEach(ok) ==
    /\ run.prog = "weekly" /\ run.pc = "beforeEach"
    /\ run' = [run EXCEPT !.trackRoutines = <<>>,
                          !.ran = @ + 1,
                          !.pc = IF ok THEN "it" ELSE "after"]
    /\ UNCHANGED proxyVars

\* What a test pushes: the id of the routine the API created for it.
Pushed(track, id) == Append(track, id)

\* A test: createRoutine, then trackRoutines.push(routine.data.id), then
\* the rest of the test, which passes or fails; when createRoutine rejects
\* nothing is pushed. more: another test of the suite follows.
WeeklyIt(created, more) ==
    /\ run.prog = "weekly" /\ run.pc = "it"
    /\ more => run.ran < MaxTests
    /\ run' = [run EXCEPT
                 !.trackRoutines = IF created THEN Pushed(@, run.nextId) ELSE @,
                 !.created = IF created THEN Append(@, run.nextId) ELSE @,
                 !.nextId = IF created THEN @ + 1 ELSE @,
                 !.pc = IF more THEN "beforeEach" ELSE "after"]
    /\ UNCHANGED proxyVars

\* after: for (const routineId of trackRoutines)
\*            await routinesApi.deleteRoutine(routineId);
\* one iteration, or the end of the loop.
WeeklyAfter(ok) ==
    /\ run.prog = "weekly" /\ run.pc = "after"
    /\ IF run.i < Len(run.trackRoutines)
       THEN run' = [run EXCEPT
                      !.deleted = Append(@, run.trackRoutines[run.i + 1]),
                      !.i = @ + 1,
                      !.pc = IF ok THEN "after" ELSE "done",
                      !.out = IF ok THEN "pending" ELSE "rejected"]
       ELSE /\ ok
            /\ run' = [run EXCEPT !.pc = "done", !.out = "resolved"]
    /\ UNCHANGED proxyVars

NextWeekly ==
    \/ \E ok \in BOOLEAN : WeeklyBeforeEach(ok)
    \/ \E created, more \in BOOLEAN : WeeklyIt(created, more)
    \/ \E ok \in BOOLEAN : WeeklyAfter(ok)

SpecWeekly == WeeklyInit /\ [][NextWeekly]_vars

\* ------------------------------------------------------------------ C23
\* C23: when the suite has finished, every routine a test of the suite
\* created and pushed to trackRoutines has been passed to deleteRoutine.
C23_NoTrackedRoutineLeaked ==
    (run.prog = "weekly" /\ run.pc = "done") =>
        \A k \in 1..Len(run.created) :
            \E j \in 1..Len(run.deleted) : run.deleted[j] = run.created[k]

\* ======================================================================
\* afterEach of the 'Manage Routine' suite (src/unnamed/part_003:33-65).
\* ======================================================================
MaxTracked == 2     \* routines tracked by name, and by id, in one test

TrackedNames == <<"UL4a", "UL4b", "UL4c">>
TrackedIds   == <<1, 2, 3>>

CleanupInit ==
    /\ ProxyInit
    /\ \E n, m \in 0..MaxTracked :
          run = [prog |-> "cleanup", pc |-> "start",
                 names |-> SubSeq(TrackedNames, 1, n),
                 ids |-> SubSeq(TrackedIds, 1, m),
                 k |-> 0, navFailed |-> FALSE,
                 triedNames |-> <<>>, triedIds |-> <<>>,
                 failedNames |-> {}, failedIds |-> {}, out |-> "pending"]

\* if (trackRoutineNames.length > 0) { try { navigate back ... } }
\* shown: what isScreenDisplayed answers; ok: no call of the block threw.
CleanupNavigate(shown, ok) ==
    /\ run.prog = "cleanup" /\ run.pc = "start"
    /\ IF Len(run.names) = 0
       THEN shown /\ ok /\ run' = [run EXCEPT !.pc = "ids"]
       ELSE run' = [run EXCEPT !.pc = IF ok THEN "names" ELSE "ids",
                               !.navFailed = ~ok]
    /\ UNCHANGED proxyVars

\* Where afterEach goes on when a deletion inside the loop named by pc has
\* thrown: the try/catch around each deletion keeps it in the loop.
OnDeleteFailureLeave(pc) == IF pc = "names" THEN "ids" ELSE "done"
OnDeleteFailure(pc) == pc

\* for (const routineName of trackRoutineNames) { try { await
\* createFluentMyRoutinesPage().waitForScreen().tapDeleteRoutine(name)
\* .execute() } catch ... }: one iteration, or the end of the loop.
CleanupByName(ok) ==
    /\ run.prog = "cleanup" /\ run.pc = "names"
    /\ IF run.k < Len(run.names)
       THEN run' = [run EXCEPT
                      !.triedNames = Append(@, run.names[run.k + 1]),
                      !.failedNames = IF ok THEN @ ELSE @ \cup {run.names[run.k + 1]},
                      !.k = IF ok \/ OnDeleteFailure("names") = "names"
                            THEN @ + 1 ELSE 0,
                      !.pc = IF ok THEN "names" ELSE OnDeleteFailure("names")]
       ELSE /\ ok
            /\ run' = [run EXCEPT !.pc = "ids", !.k = 0]
    /\ UNCHANGED proxyVars

\* for (const routineId of trackRoutines) { try { await
\* routinesApi.deleteRoutine(routineId) } catch ... }
CleanupById(ok) ==
    /\ run.prog = "cleanup" /\ run.pc = "ids"
    /\ IF run.k < Len(run.ids)
       THEN run' = [run EXCEPT
                      !.triedIds = Append(@, run.ids[run.k + 1]),
                      !.failedIds = IF ok THEN @ ELSE @ \cup {run.ids[run.k + 1]},
                      !.k = @ + 1,
                      !.pc = IF ok THEN "ids" ELSE OnDeleteFailure("ids"),
                      !.out = IF ok \/ OnDeleteFailure("ids") = "ids"
                              THEN "pending" ELSE "rejected"]
       ELSE /\ ok
            /\ run' = [run EXCEPT !.pc = "done", !.out = "resolved"]
    /\ UNCHANGED proxyVars

NextCleanup ==
    \/ \E shown, ok \in BOOLEAN : CleanupNavigate(shown, ok)
    \/ \E ok \in BOOLEAN : CleanupByName(ok)
    \/ \E ok \in BOOLEAN : CleanupById(ok)

SpecCleanup == CleanupInit /\ [][NextCleanup]_vars

Springboard == "com.apple.springboard"

\* The app in front when the call is made, and the setting as it was.
Bundles  == {"com.xqfitness.app", "com.apple.Preferences", "com.apple.mobilesafari"}
Settings == {"auto", "com.xqfitness.app"}

\* What the action resolves with.
ActionValues == {Undef, "dismissed"}

HomeInit ==
    /\ ProxyInit
    /\ \E android \in BOOLEAN, active \in Bundles, setting \in Settings :
          run = [prog |-> "home", pc |-> "start", android |-> android,
                 active |-> active, before |-> setting, setting |-> setting,
                 bundleId |-> "", updates |-> <<>>, settingAtAction |-> "",
                 action |-> "none", result |-> Undef,
                 out |-> "pending", val |-> Undef]

\* The call rejects with what the awaited driver call threw.
HomeRejected == [run EXCEPT !.pc = "done", !.out = "rejected", !.val = Boom]

\* if (driver.isAndroid) return action();  otherwise
\* activeAppInfo = await driver.execute('mobile: activeAppInfo')
HomeStart(ok) ==
    /\ run.prog = "home" /\ run.pc = "start"
    /\ IF run.android
       THEN ok /\ run' = [run EXCEPT !.pc = "android"]
       ELSE run' = IF ok
                   THEN [run EXCEPT !.pc = "switch", !.bundleId = run.active]
                   ELSE HomeRejected
    /\ UNCHANGED proxyVars

\* On Android the promise of action() is what the call returns.
HomeAndroidAction(resolves, v) ==
    /\ run.prog = "home" /\ run.pc = "android"
    /\ ~resolves => v = Undef
    /\ run' = [run EXCEPT !.pc = "done",
                          !.settingAtAction = run.setting,
                          !.action = IF resolves THEN "resolved" ELSE "rejected",
                          !.out = IF resolves THEN "resolved" ELSE "rejected",
                          !.val = IF resolves THEN v ELSE Boom]
    /\ UNCHANGED proxyVars

\* await driver.updateSettings({ defaultActiveApplication: springboard })
HomeSwitch(ok) ==
    /\ run.prog = "home" /\ run.pc = "switch"
    /\ run' = IF ok
              THEN [run EXCEPT !.pc = "action", !.setting = Springboard,
                               !.updates = Append(@, Springboard)]
              ELSE [HomeRejected EXCEPT !.updates = Append(@, Springboard)]
    /\ UNCHANGED proxyVars

\* Where the call goes on when action() has rejected: the catch is empty
\* and the code after it runs.
OnActionRejectedStop(next) == "done"
OnActionRejected(next) == next

\* try { result = await action() } catch (e) { }
HomeAction(resolves, v) ==
    /\ run.prog = "home" /\ run.pc = "action"
    /\ ~resolves => v = Undef
    /\ run' = [run EXCEPT
                 !.settingAtAction = run.setting,
                 !.action = IF resolves THEN "resolved" ELSE "rejected",
                 !.result = IF resolves THEN v ELSE @,
                 !.pc = IF resolves THEN "restore" ELSE OnActionRejected("restore"),
                 !.out = IF resolves \/ OnActionRejected("restore") = "restore"
                         THEN "pending" ELSE "rejected",
                 !.val = IF resolves \/ OnActionRejected("restore") = "restore"
                         THEN Undef ELSE Boom]
    /\ UNCHANGED proxyVars

\* await driver.updateSettings({ defaultActiveApplication:
\*     activeAppInfo.bundleId });  return result
HomeRestore(ok) ==
    /\ run.prog = "home" /\ run.pc = "restore"
    /\ run' = IF ok
              THEN [run EXCEPT !.pc = "done", !.setting = run.bundleId,
                               !.updates = Append(@, run.bundleId),
                               !.out = "resolved", !.val = run.result]
              ELSE [HomeRejected EXCEPT !.updates = Append(@, run.bundleId)]
    /\ UNCHANGED proxyVars

NextHome ==
    \/ \E ok \in BOOLEAN : HomeStart(ok)
    \/ \E r \in BOOLEAN, v \in ActionValues : HomeAndroidAction(r, v)
    \/ \E ok \in BOOLEAN : HomeSwitch(ok)
    \/ \E r \in BOOLEAN, v \in ActionValues : HomeAction(r, v)
    \/ \E ok \in BOOLEAN : HomeRestore(ok)

SpecHome == HomeInit /\ [][NextHome]_vars

\* ------------------------------------------------------------------ C25
\* C25: on a driver that is not Android the action runs with the setting
\* at springboard; whether it resolves or rejects, the setting is then
\* written back to the bundle id of the app that was active before the
\* call, and once that write has succeeded the call resolves, with the
\* action's value, or with undefined when the action rejected. On Android
\* the action runs with the setting untouched and no setting is written.
HomeActionRan == run.action # "none"

C25_HomeScreenContext ==
    run.prog = "home" =>
        IF run.android
        THEN /\ run.updates = <<>> /\ run.setting = run.before
             /\ run.pc = "done" => HomeActionRan
        ELSE /\ HomeActionRan =>
                  /\ run.settingAtAction = Springboard
                  /\ run.pc \in {"restore", "done"}
             /\ (HomeActionRan /\ run.pc = "done") =>
                  /\ run.updates = <<Springboard, run.active>>
                  /\ run.out = "resolved" =>
                        /\ run.setting = run.active
                        /\ run.action = "rejected" => run.val = Undef
                        /\ run.action = "resolved" => run.val = run.result
                  /\ run.out = "rejected" => run.setting = Springboard

C25_Witness ==
    /\ run.prog = "home" /\ ~run.android /\ run.pc = "done"
    /\ run.action = "rejected"
    /\ run.out = "resolved" /\ run.val = Undef
    /\ run.before = "auto" /\ run.setting = "com.apple.Preferences"

\* ======================================================================
\* WeeklyReportPage.verifyReportDisplayed
\* (src/tests/page-objects/weekly-report.page.ts:42-82).
\* ======================================================================
\* What the screen shows once the loading wait is over.
ReportInit ==
    /\ ProxyInit
    /\ \E loading, error, screen \in BOOLEAN :
          run = [prog |-> "report", pc |-> "wait",
                 loading |-> loading, error |-> error, screen |-> screen,
                 sawLoading |-> FALSE, sawError |-> FALSE,
                 thrown |-> <<>>, out |-> "pending"]

\* await this.waitForLoadingToComplete(): the wait for the indicator to
\* disappear is in a try with an empty catch; then a pause.
ReportWait(timedOut) ==
    /\ run.prog = "report" /\ run.pc = "wait"
    /\ run' = [run EXCEPT !.pc = "loading",
                          !.thrown = IF timedOut THEN Append(@, "timeout") ELSE @]
    /\ UNCHANGED proxyVars

\* try { if (await loadingContainer.isDisplayed()) throw new Error(...) }
\* catch (error) { }: the catch receives the Error thrown in the try as
\* well as a failure of isDisplayed, and drops both.
ReportCheckLoading(found) ==
    /\ run.prog = "report" /\ run.pc = "loading"
    /\ run' = [run EXCEPT
                 !.pc = "error",
                 !.sawLoading = found /\ run.loading,
                 !.thrown = IF ~found THEN Append(@, "not found")
                            ELSE IF run.loading THEN Append(@, "still loading")
                            ELSE @]
    /\ UNCHANGED proxyVars

\* try { if (await errorContainer.isDisplayed()) throw new Error(...) }
\* catch (error) { }
ReportCheckError(found) ==
    /\ run.prog = "report" /\ run.pc = "error"
    /\ run' = [run EXCEPT
                 !.pc = "screen",
                 !.sawError = found /\ run.error,
                 !.thrown = IF ~found THEN Append(@, "not found")
                            ELSE IF run.error THEN Append(@, "error state")
                            ELSE @]
    /\ UNCHANGED proxyVars

\* await expect(weeklyReportScreen).toBeDisplayed({ wait: 5000 });
\* return this
ReportCheckScreen ==
    /\ run.prog = "report" /\ run.pc = "screen"
    /\ run' = [run EXCEPT !.pc = "done",
                          !.out = IF run.screen THEN "resolved" ELSE "rejected"]
    /\ UNCHANGED proxyVars

NextReport ==
    \/ \E timedOut \in BOOLEAN : ReportWait(timedOut)
    \/ \E found \in BOOLEAN : ReportCheckLoading(found)
    \/ \E found \in BOOLEAN : ReportCheckError(found)
    \/ ReportCheckScreen

SpecReport == ReportInit /\ [][NextReport]_vars

\* ------------------------------------------------------------------ C26
\* C26: verifyReportDisplayed rejects when, after the loading wait, it
\* found the loading container or the error container displayed, and
\* resolves only when neither is displayed and the report screen is.
C26_RejectsLoadingOrError ==
    (run.prog = "report" /\ run.pc = "done") =>
        /\ (run.sawLoading \/ run.sawError) => run.out = "rejected"
        /\ run.out = "resolved" =>
              ~run.sawLoading /\ ~run.sawError /\ run.screen

\* ======================================================================
\* Capturing the page source and a screenshot: testHooks.afterTest
\* (src/support/hooks/test-hooks.ts:18-60) and
\* capturePageSourceAndScreenshot (src/support/utils/common.ts:14-58).
\* ======================================================================
DomCaptures == "artifacts/dom-captures"
Screenshots == "artifacts/screenshots"
Logs        == "artifacts/logs"
ArtifactDirs == {DomCaptures, Screenshots, Logs}

\* A value returned: undefined, or the two paths.
Undefined == [kind |-> "undefined"]
Paths(src, shot) == [kind |-> "paths", pageSourcePath |-> src, screenshotPath |-> shot]

\* page-source${suffix}.xml and screenshot${suffix}.png, unless the file
\* name is given.
DomFile(prefix, given) ==
    IF given # "" THEN given
    ELSE IF prefix = "" THEN "page-source.xml" ELSE "page-source-step-1.xml"
ScreenshotFile(prefix, given) ==
    IF given # "" THEN given
    ELSE IF prefix = "" THEN "screenshot.png" ELSE "screenshot-step-1.png"

\* The run of either function: the directories and files that exist, the
\* driver and filesystem operations made so far, and the promise returned.
CaptureRun(prog, pc, dirs, domFile, shotFile) ==
    [prog |-> prog, pc |-> pc, passed |-> FALSE, error |-> "",
     dirs |-> dirs, files |-> {},
     src |-> [dir |-> DomCaptures, file |-> domFile],
     shot |-> [dir |-> Screenshots, file |-> shotFile],
     trace |-> <<>>, failedAt |-> "", out |-> "pending", val |-> Undefined]

\* catch (err) { console.log(...) }: the function ends, resolving with
\* undefined.
CaughtRethrown(r, op) ==
    [r EXCEPT !.pc = "done", !.failedAt = op, !.out = "rejected"]
Caught(r, op) ==
    [r EXCEPT !.pc = "done", !.failedAt = op, !.out = "resolved",
              !.val = Undefined]

\* const pageSource = await browser.getPageSource()
CaptureGetSource(ok) ==
    /\ run.prog \in {"afterTest", "capture"} /\ run.pc = "source"
    /\ LET r == [run EXCEPT !.trace = Append(@, "getPageSource")]
       IN  run' = IF ok THEN [r EXCEPT !.pc = "store"]
                  ELSE Caught(r, "getPageSource")
    /\ UNCHANGED proxyVars

\* The missing artifact directories are made, then
\* fs.writeFileSync(pageSourcePath, pageSource); all synchronous.
\* failing: the call that throws, if one does.
CaptureStoreSource(failing) ==
    /\ run.prog \in {"afterTest", "capture"} /\ run.pc = "store"
    /\ failing \in {"", "mkdirSync", "writeFileSync"}
    /\ failing = "mkdirSync" => run.dirs # ArtifactDirs
    /\ LET made == [run EXCEPT !.dirs = ArtifactDirs,
                               !.trace = IF run.dirs # ArtifactDirs
                                         THEN Append(@, "mkdirSync") ELSE @]
       IN  run' =
             CASE failing = "mkdirSync" ->
                    Caught([run EXCEPT !.trace = Append(@, "mkdirSync")], "mkdirSync")
               [] failing = "writeFileSync" ->
                    Caught([made EXCEPT !.trace = Append(@, "write source")],
                           "writeFileSync")
               [] OTHER ->
                    [made EXCEPT !.pc = "shot",
                                 !.files = @ \cup {run.src},
                                 !.trace = Append(@, "write source")]
    /\ UNCHANGED proxyVars

\* const image = await browser.takeScreenshot()
CaptureTakeScreenshot(ok) ==
    /\ run.prog \in {"afterTest", "capture"} /\ run.pc = "shot"
    /\ LET r == [run EXCEPT !.trace = Append(@, "takeScreenshot")]
       IN  run' = IF ok THEN [r EXCEPT !.pc = "storeShot"]
                  ELSE Caught(r, "takeScreenshot")
    /\ UNCHANGED proxyVars

\* fs.writeFileSync(screenshotPath, ...); the paths are logged; afterTest
\* returns nothing, capturePageSourceAndScreenshot the two paths.
CaptureStoreScreenshot(ok) ==
    /\ run.prog \in {"afterTest", "capture"} /\ run.pc = "storeShot"
    /\ LET r == [run EXCEPT !.trace = Append(@, "write screenshot")]
       IN  run' = IF ok
                  THEN [r EXCEPT !.pc = "done",
                                 !.files = @ \cup {run.shot},
                                 !.out = "resolved",
                                 !.val = IF run.prog = "capture"
                                         THEN Paths(run.src, run.shot)
                                         ELSE Undefined]
                  ELSE Caught(r, "writeFileSync")
    /\ UNCHANGED proxyVars

\* --------------------------------------------------- testHooks.afterTest
\* result.error: the error of a failed test, "" for undefined.
TestErrors == {"", "AssertionError", "TimeoutError"}

AfterTestInit ==
    /\ ProxyInit
    /\ \E passed \in BOOLEAN, error \in TestErrors, dirs \in SUBSET ArtifactDirs :
          run = [CaptureRun("afterTest", "enter", dirs,
                            "page-source.xml", "screenshot.png")
                   EXCEPT !.passed = passed, !.error = error]

\* if (!passed && error)
ShouldCaptureFailed(passed, error) == ~passed
ShouldCapture(passed, error) == ~passed /\ error # ""

AfterTestEnter ==
    /\ run.prog = "afterTest" /\ run.pc = "enter"
    /\ run' = IF ShouldCapture(run.passed, run.error)
              THEN [run EXCEPT !.pc = "source"]
              ELSE [run EXCEPT !.pc = "done", !.out = "resolved"]
    /\ UNCHANGED proxyVars

NextAfterTest ==
    \/ AfterTestEnter
    \/ \E ok \in BOOLEAN : CaptureGetSource(ok)
    \/ \E f \in {"", "mkdirSync", "writeFileSync"} : CaptureStoreSource(f)
    \/ \E ok \in BOOLEAN : CaptureTakeScreenshot(ok)
    \/ \E ok \in BOOLEAN : CaptureStoreScreenshot(ok)

SpecAfterTest == AfterTestInit /\ [][NextAfterTest]_vars

\* ------------------------------------------------------------------ C27
\* C27: afterTest always resolves. It calls the driver and the filesystem
\* only for a test that did not pass and has an error; then, when no call
\* fails, it writes artifacts/dom-captures/page-source.xml and after it
\* artifacts/screenshots/screenshot.png.
SourceThenScreenshot ==
    \E i, j \in 1..Len(run.trace) :
        /\ i < j
        /\ run.trace[i] = "write source" /\ run.trace[j] = "write screenshot"

C27_AfterTestCaptures ==
    run.prog = "afterTest" =>
        /\ run.out # "rejected"
        /\ run.pc = "done" => run.out = "resolved"
        /\ (run.trace # <<>> \/ run.files # {}) => (~run.passed /\ run.error # "")
        /\ (run.pc = "done" /\ ~run.passed /\ run.error # "" /\ run.failedAt = "") =>
              /\ run.files = {[dir |-> DomCaptures, file |-> "page-source.xml"],
                              [dir |-> Screenshots, file |-> "screenshot.png"]}
              /\ SourceThenScreenshot

C27_Witness ==
    /\ run.prog = "afterTest" /\ run.pc = "done"
    /\ ~run.passed /\ run.error = "AssertionError"
    /\ run.failedAt = "" /\ Cardinality(run.files) = 2
    /\ run.dirs = ArtifactDirs

\* ----------------------------------------- capturePageSourceAndScreenshot
\* options.prefix, options.pageSourceFileName, options.screenshotFileName;
\* "" stands for an option that is not given.
Prefixes        == {"", "step-1"}
GivenDomFiles   == {"", "my-test.xml"}
GivenShotFiles  == {"", "my-test.png"}

CaptureInit ==
    /\ ProxyInit
    /\ \E prefix \in Prefixes, dom \in GivenDomFiles, shot \in GivenShotFiles,
          dirs \in SUBSET ArtifactDirs :
          run = CaptureRun("capture", "source", dirs,
                           DomFile(prefix, dom), ScreenshotFile(prefix, shot))

NextCapture ==
    \/ \E ok \in BOOLEAN : CaptureGetSource(ok)
    \/ \E f \in {"", "mkdirSync", "writeFileSync"} : CaptureStoreSource(f)
    \/ \E ok \in BOOLEAN : CaptureTakeScreenshot(ok)
    \/ \E ok \in BOOLEAN : CaptureStoreScreenshot(ok)

SpecCapture == CaptureInit /\ [][NextCapture]_vars

\* ------------------------------------------------------------------ C28
\* C28: capturePageSourceAndScreenshot never rejects; when a driver or
\* filesystem call failed it resolves with undefined, otherwise with the
\* two paths, both files written; the screenshot is taken only after the
\* page source file was written, so when the screenshot fails the result
\* is undefined and the page source file exists.
C28_CaptureNeverRejects ==
    run.prog = "capture" =>
        /\ run.out # "rejected"
        /\ run.pc = "done" =>
              /\ run.out = "resolved"
              /\ run.failedAt # "" => run.val = Undefined
              /\ run.failedAt = "" =>
                    /\ run.val = Paths(run.src, run.shot)
                    /\ {run.src, run.shot} \subseteq run.files
        /\ (\E i \in 1..Len(run.trace) : run.trace[i] = "takeScreenshot") =>
              run.src \in run.files
        /\ (run.pc = "done" /\ run.failedAt = "takeScreenshot") =>
              /\ run.val = Undefined
              /\ run.src \in run.files /\ run.shot \notin run.files

C28_Witness ==
    /\ run.prog = "capture" /\ run.pc = "done"
    /\ run.failedAt = "takeScreenshot"
    /\ run.out = "resolved" /\ run.val = Undefined
    /\ run.files = {[dir |-> DomCaptures, file |-> "page-source-step-1.xml"]}

\* ======================================================================
\* MyRoutinesPage.deleteRoutineByName
\* (src/tests/page-objects/my-routines.page.ts:218-309).
\* ======================================================================
MaxList == 2        \* routines in the list of the screen

WaitAttempts   == 3     \* for (let i = 0; i < 3; i++)
ConfirmButtons == 6     \* confirmSelectors.length

\* n: the length of the routine list; at: the place in it of the routine
\* whose label includes the name, 0 when there is none.
DeleteInit ==
    /\ ProxyInit
    /\ \E n \in 0..MaxList : \E at \in 0..n :
          run = [prog |-> "delete", pc |-> "wait", n |-> n, at |-> at,
                 i |-> 0, screenReady |-> FALSE, waits |-> 0,
                 k |-> 0, routineIndex |-> -1, j |-> 0,
                 tapped |-> FALSE, clicked |-> FALSE, out |-> "pending"]

\* catch (error) { console.log(...) } return this: whatever was thrown in
\* the body ends the method, which resolves.
DeleteCaughtRethrown(r) == [r EXCEPT !.pc = "done", !.out = "rejected"]
DeleteCaught(r) == [r EXCEPT !.pc = "done", !.out = "resolved"]

\* return this
DeleteReturned(r) == [r EXCEPT !.pc = "done", !.out = "resolved"]

\* One turn of the loop around waitForScreen(): on success screenReady and
\* break; on failure the catch pauses, and a failing pause leaves the body.
DeleteWaitForScreen(ok, pauseOk) ==
    /\ run.prog = "delete" /\ run.pc = "wait"
    /\ ok => pauseOk
    /\ LET r == [run EXCEPT !.waits = @ + 1]
       IN  run' =
             IF ok THEN [r EXCEPT !.screenReady = TRUE, !.pc = "list"]
             ELSE IF ~pauseOk THEN DeleteCaught(r)
             ELSE [r EXCEPT !.i = @ + 1,
                            !.pc = IF run.i + 1 < WaitAttempts THEN "wait" ELSE "list"]
    /\ UNCHANGED proxyVars

\* pause(500); routines = await this.getRoutineList(); routines.length
DeleteGetList(ok) ==
    /\ run.prog = "delete" /\ run.pc = "list"
    /\ run' = IF ok THEN [run EXCEPT !.pc = "scan", !.k = 0]
              ELSE DeleteCaught(run)
    /\ UNCHANGED proxyVars

\* One turn of the loop over the list: the label is read; a failing read
\* is skipped; a label that includes the name gives the index and breaks.
DeleteScan(ok) ==
    /\ run.prog = "delete" /\ run.pc = "scan"
    /\ IF run.k < run.n
       THEN run' = IF ok /\ run.at = run.k + 1
                   THEN [run EXCEPT !.routineIndex = run.k + 1, !.pc = "tap"]
                   ELSE [run EXCEPT !.k = @ + 1]
       ELSE ok /\ run' = [run EXCEPT !.pc = "xpath"]
    /\ UNCHANGED proxyVars

\* if (routineIndex === -1): the item is looked up by XPath. shown: it is
\* displayed; id: the number in its name attribute, 0 when there is none.
DeleteByXPath(shown, id) ==
    /\ run.prog = "delete" /\ run.pc = "xpath"
    /\ ~shown => id = 0
    /\ run' = IF ~shown THEN DeleteReturned(run)
              ELSE IF id = 0 THEN DeleteReturned(run)
              ELSE [run EXCEPT !.routineIndex = id, !.pc = "tap"]
    /\ UNCHANGED proxyVars

\* await this.tapDeleteRoutine(routineIndex.toString()); pause(500)
DeleteTap(ok) ==
    /\ run.prog = "delete" /\ run.pc = "tap"
    /\ LET r == [run EXCEPT !.tapped = TRUE]
       IN  run' = IF ok THEN [r EXCEPT !.pc = "confirm", !.j = 0]
                  ELSE DeleteCaught(r)
    /\ UNCHANGED proxyVars

\* One turn of the loop over the confirm buttons: a displayed button is
\* clicked and the loop left; a failing call is skipped.
DeleteConfirm(shown, ok) ==
    /\ run.prog = "delete" /\ run.pc = "confirm"
    /\ IF run.j < ConfirmButtons
       THEN run' = IF shown /\ ok
                   THEN [run EXCEPT !.clicked = TRUE, !.pc = "end"]
                   ELSE [run EXCEPT !.j = @ + 1]
       ELSE shown /\ ok /\ run' = [run EXCEPT !.pc = "end"]
    /\ UNCHANGED proxyVars

\* await browser.pause(500), the last statement of the body
DeleteEnd(ok) ==
    /\ run.prog = "delete" /\ run.pc = "end"
    /\ run' = IF ok THEN DeleteReturned(run) ELSE DeleteCaught(run)
    /\ UNCHANGED proxyVars

NextDelete ==
    \/ \E ok, pauseOk \in BOOLEAN : DeleteWaitForScreen(ok, pauseOk)
    \/ \E ok \in BOOLEAN : DeleteGetList(ok)
    \/ \E ok \in BOOLEAN : DeleteScan(ok)
    \/ \E shown \in BOOLEAN, id \in 0..MaxList : DeleteByXPath(shown, id)
    \/ \E ok \in BOOLEAN : DeleteTap(ok)
    \/ \E shown, ok \in BOOLEAN : DeleteConfirm(shown, ok)
    \/ \E ok \in BOOLEAN : DeleteEnd(ok)

\* Every driver call the method awaits comes back, resolved or rejected.
SpecDelete == DeleteInit /\ [][NextDelete]_vars /\ WF_vars(NextDelete)

\* ------------------------------------------------------------------ C29
\* C29: deleteRoutineByName never rejects, whatever driver call fails; it
\* calls waitForScreen at most 3 times and goes on to look for the routine
\* when all 3 fail; it taps delete only for a routine it has found; and it
\* always ends.
C29_Safe ==
    run.prog = "delete" =>
        /\ run.out # "rejected"
        /\ run.pc = "done" => run.out = "resolved"
        /\ run.waits <= 3
        /\ ~(run.pc = "wait" /\ run.i >= 3)
        /\ run.tapped => run.routineIndex # -1
        /\ (run.pc = "done" /\ run.routineIndex = -1) => ~run.tapped

C29_DeleteNeverRejects == []C29_Safe /\ <>(run.pc = "done")

C29_Witness ==
    /\ run.prog = "delete" /\ run.pc = "done"
    /\ run.waits = 3 /\ ~run.screenReady
    /\ run.tapped /\ run.routineIndex = 2
    /\ run.j = ConfirmButtons /\ ~run.clicked

\* ======================================================================
\* RoutineDetailPage.addWorkoutDay
\* (src/tests/page-objects/routine-detail.page.ts:31-103).
\* ======================================================================
MaxSets == 2        \* rest arguments of one call

SetStrings == {"3 sets of chest", "2 sets of back"}

\* The second argument: a number, a string, or not given.
Num(n) == [type |-> "number", n |-> n, s |-> ""]
Str(s) == [type |-> "string", n |-> 0, s |-> s]
NotGiven == [type |-> "undefined", n |-> 0, s |-> ""]
SecondArgs == {Num(0), Num(2), Str(""), Str("4 sets of legs"), NotGiven}

SeqsUpTo(S, n) == UNION {[1..m -> S] : m \in 0..n}

\* if (typeof dayNumberOrFirstSet === 'number') ... else ...
DayNumber(second) == IF second.type = "number" THEN second.n ELSE 1

ActualSetsRestOnly(second, sets) == sets
ActualSets(second, sets) ==
    IF second.type = "number" THEN sets
    ELSE IF second.type = "string" /\ second.s # "" THEN <<second.s>> \o sets
    ELSE sets

AddDayInit ==
    /\ ProxyInit
    /\ \E second \in SecondArgs, sets \in SeqsUpTo(SetStrings, MaxSets) :
          run = [prog |-> "addDay", pc |-> "open", second |-> second,
                 sets |-> sets, dayNumber |-> DayNumber(second),
                 actualSets |-> ActualSets(second, sets),
                 i |-> 0, enteredDay |-> -1, entered |-> <<>>, saves |-> 0,
                 out |-> "pending"]

AddDayRejected(r) == [r EXCEPT !.pc = "done", !.out = "rejected"]

\* tapAddWorkoutDay, waitForManageWorkoutDayScreen, enterDayNumber,
\* enterDayName, then the keyboard is dismissed and the sets scrolled into
\* view (failures of these two are dropped). at: the call that throws.
AddDayOpen(at) ==
    /\ run.prog = "addDay" /\ run.pc = "open"
    /\ at \in {"", "before day number", "after day number"}
    /\ run' = CASE at = "before day number" -> AddDayRejected(run)
                [] at = "after day number" ->
                     AddDayRejected([run EXCEPT !.enteredDay = run.dayNumber])
                [] OTHER -> [run EXCEPT !.enteredDay = run.dayNumber,
                                        !.pc = "sets"]
    /\ UNCHANGED proxyVars

\* One turn of for (let i = 0; i < actualSets.length; i++):
\* await this.addSet(actualSets[i]); the notes label tap after it is in a
\* try. After the last turn: await this.saveWorkoutDay(); return this.
AddDaySetOrSave(ok) ==
    /\ run.prog = "addDay" /\ run.pc = "sets"
    /\ IF run.i < Len(run.actualSets)
       THEN run' = IF ok
                   THEN [run EXCEPT !.entered = Append(@, run.actualSets[run.i + 1]),
                                    !.i = @ + 1]
                   ELSE AddDayRejected(run)
       ELSE LET r == [run EXCEPT !.saves = @ + 1]
            IN  run' = IF ok THEN [r EXCEPT !.pc = "done", !.out = "resolved"]
                       ELSE AddDayRejected(r)
    /\ UNCHANGED proxyVars

NextAddDay ==
    \/ \E at \in {"", "before day number", "after day number"} : AddDayOpen(at)
    \/ \E ok \in BOOLEAN : AddDaySetOrSave(ok)

SpecAddDay == AddDayInit /\ [][NextAddDay]_vars

\* ------------------------------------------------------------------ C30
\* C30: with a number as second argument the day number entered is that
\* number and the sets entered are the rest arguments; otherwise the day
\* number is 1 and the sets are the second argument, when it is a
\* non-empty string, followed by the rest arguments. The sets are entered
\* one by one in that order, all of them before saveWorkoutDay, which is
\* called once.
ExpectedSets ==
    IF run.second.type = "number" THEN run.sets
    ELSE IF run.second.type = "string" /\ run.second.s # ""
         THEN <<run.second.s>> \o run.sets
         ELSE run.sets

C30_AddWorkoutDayDispatch ==
    run.prog = "addDay" =>
        /\ run.enteredDay # -1 =>
              run.enteredDay = IF run.second.type = "number"
                               THEN run.second.n ELSE 1
        /\ Len(run.entered) <= Len(ExpectedSets)
        /\ run.entered = SubSeq(ExpectedSets, 1, Len(run.entered))
        /\ run.saves <= 1
        /\ run.saves = 1 => run.entered = ExpectedSets
        /\ run.out = "resolved" =>
              /\ run.saves = 1
              /\ run.enteredDay # -1

C30_Witness ==
    /\ run.prog = "addDay" /\ run.out = "resolved"
    /\ run.second = Str("4 sets of legs")
    /\ run.enteredDay = 1
    /\ run.entered = <<"4 sets of legs", "3 sets of chest", "2 sets of back">>
    /\ run.saves = 1
====
